---- MODULE Spec2Model ----
(***************************************************************************)
(* A model of chaosgame.py: the ChaosGame session and its three subclasses *)
(* (ChaosGameHistExc, ChaosGameHistExc2, ChaosGameTargetTransform).        *)
(*                                                                         *)
(* Numbers.  Python floats are modelled as exact numbers of the field      *)
(* Q(sqrt 3): [a, b, d] stands for (a + b*sqrt(3)) / d, kept in lowest     *)
(* terms.  Angles are counted in twelfths of a turn (pi/6), so the sines   *)
(* and cosines of the vertices of the 3-, 4- and 6-gon and of rotations by *)
(* multiples of pi/6 are exact.  Rounding of floats is not modelled.       *)
(*                                                                         *)
(* Randomness.  Every call of random() or randint() consumes one draw u,   *)
(* a number in 0..DrawRes-1 that stands for the uniform value u/DrawRes of *)
(* [0,1): random() returns u/DrawRes and randint(lo, hi) returns           *)
(* lo + floor(u/DrawRes * (hi-lo+1)).                                      *)
(***************************************************************************)
EXTENDS Integers, Sequences, FiniteSets, TLC

\* ------------------------------------------------------------------ bounds
\* Total number of loop iterations one session runs, over all its calls.
MaxSteps == 3
\* Number of generate_points calls on one session.
MaxCalls == 2
\* Resolution of a random draw.
DrawRes == 6

Draws == 0 .. (DrawRes - 1)

\* ------------------------------------------------------------- arithmetic
Abs(n) == IF n < 0 THEN -n ELSE n

RECURSIVE GCD(_, _)
GCD(m, n) == IF n = 0 THEN m ELSE GCD(n, m % n)

\* (a + b*sqrt(3)) / d in lowest terms, d > 0.
Num(a, b, d) ==
    LET g == GCD(GCD(Abs(a), Abs(b)), d)
    IN  [a |-> a \div g, b |-> b \div g, d |-> d \div g]

Frac(n, d) == Num(n, 0, d)
Int2Num(n) == Num(n, 0, 1)

\* Sum, difference and product, not reduced to lowest terms; sums are taken
\* over the least common denominator.  A computation reduces its result once,
\* with Norm.
NAdd(p, q) ==
    LET g == GCD(p.d, q.d)
    IN  [a |-> p.a * (q.d \div g) + q.a * (p.d \div g),
         b |-> p.b * (q.d \div g) + q.b * (p.d \div g),
         d |-> p.d * (q.d \div g)]
NNeg(p) == [a |-> -p.a, b |-> -p.b, d |-> p.d]
NSub(p, q) == NAdd(p, NNeg(q))
NMul(p, q) ==
    [a |-> p.a * q.a + 3 * p.b * q.b, b |-> p.a * q.b + p.b * q.a, d |-> p.d * q.d]
Norm(p) == Num(p.a, p.b, p.d)
\* p < q, for rational p and q (the weights and the draws are rational).
NLess(p, q) == p.a * q.d < q.a * p.d

\* cos and sin of k twelfths of a turn.
cos(k) ==
    CASE k % 12 = 0  -> Num(1, 0, 1)
      [] k % 12 = 1  -> Num(0, 1, 2)
      [] k % 12 = 2  -> Num(1, 0, 2)
      [] k % 12 = 3  -> Num(0, 0, 1)
      [] k % 12 = 4  -> Num(-1, 0, 2)
      [] k % 12 = 5  -> Num(0, -1, 2)
      [] k % 12 = 6  -> Num(-1, 0, 1)
      [] k % 12 = 7  -> Num(0, -1, 2)
      [] k % 12 = 8  -> Num(-1, 0, 2)
      [] k % 12 = 9  -> Num(0, 0, 1)
      [] k % 12 = 10 -> Num(1, 0, 2)
      [] OTHER       -> Num(0, 1, 2)

sin(k) == cos(k + 9)

\* ----------------------------------------------------------- bit operations
Pow2(n) == 2 ^ n

RECURSIVE BitOr(_, _)
BitOr(m, n) ==
    IF m = 0 THEN n
    ELSE IF n = 0 THEN m
    ELSE (IF m % 2 = 1 \/ n % 2 = 1 THEN 1 ELSE 0) + 2 * BitOr(m \div 2, n \div 2)

RECURSIVE BitAnd(_, _)
BitAnd(m, n) ==
    IF m = 0 \/ n = 0 THEN 0
    ELSE (IF m % 2 = 1 /\ n % 2 = 1 THEN 1 ELSE 0) + 2 * BitAnd(m \div 2, n \div 2)

\* The rotation without the final mask.
lcyc_unmasked(N, n, k) == BitOr(n \div Pow2(N - k), n * Pow2(k))

\* lcyc(N, n, k) = ((n >> (N-k)) | (n << k)) & ((1 << N) - 1)
lcyc(N, n, k) ==
    BitAnd(BitOr(n \div Pow2(N - k), n * Pow2(k)), Pow2(N) - 1)

\* ----------------------------------------------------------- configuration
\* Transformation(scale, rotation, prob); rotation in twelfths of a turn.
Transformation(scale, rotation, prob) ==
    [scale |-> scale, rotation |-> rotation, prob |-> prob]

\* The default argument of ChaosGame.__init__ (prob defaults to 1).
DefaultTransformations == << Transformation(Frac(1, 2), 0, Frac(1, 1)) >>
\* Two equally likely transformations, the second rotated by pi/3: the shape of
\* the module-level session's list, with a scale of 1/4 for its 0.6.
ScriptTransformations ==
    << Transformation(Frac(1, 2), 0, Frac(1, 2)),
       Transformation(Frac(1, 4), 2, Frac(1, 2)) >>
\* A single transformation with a quarter turn.
QuarterTransformations == << Transformation(Frac(1, 2), 3, Frac(1, 1)) >>
\* Weights that sum to 5/6.
ShortTransformations ==
    << Transformation(Frac(1, 2), 0, Frac(1, 2)),
       Transformation(Frac(1, 4), 0, Frac(1, 3)) >>
\* One transformation per vertex of a triangle.
PerVertexTransformations ==
    << Transformation(Frac(1, 2), 0, Frac(1, 1)),
       Transformation(Frac(1, 4), 0, Frac(1, 1)),
       Transformation(Frac(1, 2), 3, Frac(1, 1)) >>

DefaultColoring == << <<255, 0, 0>>, <<0, 255, 0>>, <<0, 0, 255>>, <<255, 255, 0>> >>

\* The class names.
Base == "ChaosGame"
HistExc == "ChaosGameHistExc"
HistExc2 == "ChaosGameHistExc2"
TargetTransform == "ChaosGameTargetTransform"

Config(c, N, ts, ex, hl) ==
    [cls |-> c, num_targets |-> N, transformations |-> ts,
     coloring |-> DefaultColoring, excluded |-> ex, hist_len |-> hl]

\* A single transformation of weight 1/2.
HalfTransformations == << Transformation(Frac(1, 2), 0, Frac(1, 2)) >>

\* A coloring of three entries.
ShortColoring == << <<255, 0, 0>>, <<0, 255, 0>>, <<0, 0, 255>> >>

\* The `excluded` argument lists a session is constructed with.
DefaultExcluded == <<0, 0, 0, 0, 0, 0>>
ExcludedLists == { <<>>, <<0>>, <<1>>, <<0, 2>>, <<0, 1, 2>>, DefaultExcluded }

\* Sessions the constructors accept although the configuration is invalid:
\* two targets, weights that sum to 1/2, a coloring of three entries, and a
\* ChaosGameTargetTransform with fewer transformations than targets.
InvalidConfigurations ==
    { Config(Base, 2, DefaultTransformations, <<>>, 0),
      Config(Base, 3, HalfTransformations, <<>>, 0),
      [Config(Base, 3, DefaultTransformations, <<>>, 0) EXCEPT !.coloring = ShortColoring],
      Config(TargetTransform, 3, DefaultTransformations, <<>>, 0) }

\* The sessions the model constructs.  ChaosGame and ChaosGameTargetTransform
\* take no `excluded` and no `hist_len`; ChaosGameHistExc2 takes no `hist_len`.
\* ChaosGameHistExc and ChaosGameHistExc2 inherit choose_transform.
Configurations ==
    { Config(Base, 3, ScriptTransformations, <<>>, 0),
      Config(Base, 4, QuarterTransformations, <<>>, 0) }
    \cup { Config(HistExc, 3, DefaultTransformations, ex, 1) : ex \in ExcludedLists }
    \cup { Config(HistExc, 3, DefaultTransformations, ex, 2) : ex \in { <<0>>, <<1>> } }
    \cup { Config(HistExc, 3, ShortTransformations, <<0>>, 1),
           Config(HistExc, 4, DefaultTransformations, <<0>>, 1),
           Config(HistExc, 4, DefaultTransformations, DefaultExcluded, 1),
           Config(HistExc, 6, DefaultTransformations, <<1, 3, 5>>, 1) }
    \cup { Config(HistExc2, 3, DefaultTransformations, ex, 0) : ex \in ExcludedLists }
    \cup { Config(TargetTransform, 3, PerVertexTransformations, <<>>, 0) }
    \cup InvalidConfigurations

\* ------------------------------------------------------------------ state
VARIABLES
    cls,              \* the class of the session object
    num_targets,      \* self.num_targets
    transformations,  \* self.transformations
    coloring,         \* self.coloring
    excluded,         \* self.excluded, the relative exclusion mask
    excluded_arg,     \* the `excluded` list the constructor was given
    hist_len,         \* self.hist_len
    points,           \* self.points
    colors,           \* self.colors
    verts,            \* self.verts (absent, here empty, before the first call)
    pc,               \* "idle", "loop" (inside generate_points) or "crashed"
    n_left,           \* iterations left of `for _ in range(n)`
    err,              \* the exception that ended the program, or "none"
    calls,            \* history: the n of every generate_points call so far
    chosen,           \* history: every vertex index pushed into self.verts
    steps,            \* history: every completed loop iteration
    one_points,       \* a second session of the same configuration that makes
    one_verts,        \*   one single generate_points call of the total size
    one_chosen,       \*   and is fed the same draws
    one_err,
    x_input,          \* the module's x: the last answer read by input()
    fn_in,            \* the arguments of a function applied on its own
    fn_out            \* and its result

config == <<cls, num_targets, transformations, coloring, excluded, excluded_arg, hist_len>>
session == <<points, colors, verts, pc, n_left, err>>
history == <<calls, chosen, steps>>
single == <<one_points, one_verts, one_chosen, one_err>>
prompt == <<x_input>>
pure == <<fn_in, fn_out>>
vars == <<config, session, history, single, prompt, pure>>

Origin == << Int2Num(0), Int2Num(0) >>

RECURSIVE SumPow2(_)
\* sum(2**i for i in excluded)
SumPow2(list) ==
    IF list = <<>> THEN 0 ELSE Pow2(Head(list)) + SumPow2(Tail(list))

\* self.vertices: the regular polygon, apex up when num_targets is odd.
vertices ==
    [i \in 0 .. (num_targets - 1) |->
        IF num_targets % 2 = 0
        THEN << cos((12 \div num_targets) * i), sin((12 \div num_targets) * i) >>
        ELSE << cos(3 - (12 \div num_targets) * i), sin(3 - (12 \div num_targets) * i) >>]

\* The state after the constructor: ChaosGame.__init__ and the subclass's own.
Constructed(c) ==
    /\ cls = c.cls
    /\ num_targets = c.num_targets
    /\ transformations = c.transformations
    /\ coloring = c.coloring
    /\ excluded_arg = c.excluded
    /\ excluded = IF c.cls = HistExc THEN SumPow2(c.excluded)
                  ELSE IF c.cls = HistExc2 /\ Len(c.excluded) > 0 THEN SumPow2(c.excluded)
                  ELSE 0
    /\ hist_len = c.hist_len
    /\ points = << Origin >>
    /\ colors = <<>>
    /\ verts = <<>>
    /\ pc = "idle"
    /\ n_left = 0
    /\ err = "none"
    /\ calls = <<>>
    /\ chosen = <<>>
    /\ steps = <<>>
    /\ one_points = << Origin >>
    /\ one_verts = <<0, 0, 0>>
    /\ one_chosen = <<>>
    /\ one_err = "none"
    /\ x_input = << >>

Init ==
    /\ \E c \in Configurations : Constructed(c)
    /\ fn_in = <<>>
    /\ fn_out = <<>>

\* ------------------------------------------------------------ the library
\* The outcome of a call: the exception it raised ("none" when it returned)
\* and the value it returned.
Returned(v) == [exc |-> "none", val |-> v]
Raised(e) == [exc |-> e, val |-> 0]

\* random.randint(lo, hi) on the draw u; an empty range raises ValueError.
randint(lo, hi, u) ==
    IF hi < lo THEN Raised("ValueError")
    ELSE Returned(lo + ((u * (hi - lo + 1)) \div DrawRes))

\* random.random() on the draw u.
random(u) == Frac(u, DrawRes)

\* seq[start:] for a Python list.
SliceFrom(seq, start) ==
    LET from == IF start < 0
                THEN (IF Len(seq) + start < 0 THEN 0 ELSE Len(seq) + start)
                ELSE (IF start > Len(seq) THEN Len(seq) ELSE start)
    IN  SubSeq(seq, from + 1, Len(seq))

\* ------------------------------------------------------------ Transformation
\* transform with the roles of p1 and p2 exchanged.
transform_swapped(self, p1, p2) ==
    LET d == << NSub(p1[1], p2[1]), NSub(p1[2], p2[2]) >>
        s == << NMul(self.scale, d[1]), NMul(self.scale, d[2]) >>
        r == << NSub(NMul(s[1], cos(self.rotation)), NMul(s[2], sin(self.rotation))),
                NAdd(NMul(s[1], sin(self.rotation)), NMul(s[2], cos(self.rotation))) >>
    IN  << Norm(NAdd(r[1], p2[1])), Norm(NAdd(r[2], p2[2])) >>

\* Transformation.transform(self, p1, p2)
transform(self, p1, p2) ==
    LET d == << NSub(p2[1], p1[1]), NSub(p2[2], p1[2]) >>
        s == << NMul(self.scale, d[1]), NMul(self.scale, d[2]) >>
        r == << NSub(NMul(s[1], cos(self.rotation)), NMul(s[2], sin(self.rotation))),
                NAdd(NMul(s[1], sin(self.rotation)), NMul(s[2], cos(self.rotation))) >>
    IN  << Norm(NAdd(r[1], p1[1])), Norm(NAdd(r[2], p1[2])) >>

\* ------------------------------------------------------------ choose_vertex
\* [i for i in range(num_targets) if not (exc & (1 << i))]
verts_avail(exc) ==
    SelectSeq([i \in 1 .. num_targets |-> i - 1],
              LAMBDA i : BitAnd(exc, Pow2(i)) = 0)

\* choose_vertex with randint's inclusive upper end forgotten.
ChaosGame_choose_vertex_inclusive(u) == randint(0, num_targets, u)

\* ChaosGame.choose_vertex
ChaosGame_choose_vertex(u) == randint(0, num_targets - 1, u)

RECURSIVE HistExc_loop_each(_, _, _)
\* The loop rotating against each entry of the slice in turn.
HistExc_loop_each(slice, vs, exc) ==
    IF slice = <<>> THEN exc
    ELSE HistExc_loop_each(Tail(slice), vs,
                           BitOr(exc, lcyc(num_targets, excluded, Head(slice))))

RECURSIVE HistExc_loop(_, _, _)
\* for _ in self.verts[-self.hist_len:]: exc |= lcyc(..., self.verts[-1])
HistExc_loop(slice, vs, exc) ==
    IF slice = <<>> THEN exc
    ELSE HistExc_loop(Tail(slice), vs,
                      BitOr(exc, lcyc(num_targets, excluded, vs[Len(vs)])))

\* The exclusion mask ChaosGameHistExc.choose_vertex applies.
HistExc_exc(vs) == HistExc_loop(SliceFrom(vs, -hist_len), vs, 0)

\* Picking verts_avail[randint(0, len(verts_avail)-1)].
pick_avail(avail, u) ==
    LET r == randint(0, Len(avail) - 1, u)
    IN  IF r.exc # "none" THEN r ELSE Returned(avail[r.val + 1])

\* ChaosGameHistExc.choose_vertex
ChaosGameHistExc_choose_vertex(vs, u) == pick_avail(verts_avail(HistExc_exc(vs)), u)

\* The test of ChaosGameHistExc2.choose_vertex: self.verts[-1] == self.verts[-2]
HistExc2_triggered(vs) == vs[Len(vs)] = vs[Len(vs) - 1]

\* ChaosGameHistExc2.choose_vertex
ChaosGameHistExc2_choose_vertex(vs, u) ==
    IF HistExc2_triggered(vs)
    THEN pick_avail(verts_avail(lcyc(num_targets, excluded, vs[Len(vs)])), u)
    ELSE randint(0, num_targets - 1, u)

\* self.choose_vertex(), dispatched on the class.
choose_vertex(vs, u) ==
    CASE cls = HistExc  -> ChaosGameHistExc_choose_vertex(vs, u)
      [] cls = HistExc2 -> ChaosGameHistExc2_choose_vertex(vs, u)
      [] OTHER          -> ChaosGame_choose_vertex(u)

\* --------------------------------------------------------- choose_transform
\* What choose_transform returns: the position of a transformation in
\* self.transformations (1-based here), or None.
None == 0

RECURSIVE ChaosGame_walk_no_subtract(_, _)
\* The loop without p -= trans.prob.
ChaosGame_walk_no_subtract(i, p) ==
    IF i > Len(transformations) THEN None
    ELSE IF NLess(p, transformations[i].prob) THEN i
    ELSE ChaosGame_walk_no_subtract(i + 1, p)

RECURSIVE ChaosGame_walk(_, _)
\* The for loop of ChaosGame.choose_transform from index i on.
ChaosGame_walk(i, p) ==
    IF i > Len(transformations) THEN None
    ELSE IF NLess(p, transformations[i].prob) THEN i
    ELSE ChaosGame_walk(i + 1, NSub(p, transformations[i].prob))

\* ChaosGame.choose_transform(self, *args)
ChaosGame_choose_transform(u) == Returned(ChaosGame_walk(1, random(u)))

\* ChaosGameTargetTransform.choose_transform(self, vert): generate_points
\* passes it last_vert, a tuple of coordinates, and a list subscripted with a
\* tuple raises TypeError; subscripted with an int it gives the element or
\* raises IndexError.
ChaosGameTargetTransform_choose_transform(vert) ==
    IF vert.type # "int" THEN Raised("TypeError")
    ELSE IF vert.val < -Len(transformations) \/ vert.val >= Len(transformations)
    THEN Raised("IndexError")
    ELSE Returned((vert.val % Len(transformations)) + 1)

\* self.choose_transform(last_vert), dispatched on the class.
choose_transform(vert, u) ==
    IF cls = TargetTransform
    THEN ChaosGameTargetTransform_choose_transform(vert)
    ELSE ChaosGame_choose_transform(u)

\* ---------------------------------------------------------- generate_points
\* A Python value with its type, as far as a subscript tells them apart.
Tuple(t) == [type |-> "tuple", val |-> t]

\* The single element of a set.  Only({F(x) : x \in {e}}) is F(e) with e
\* evaluated once.
Only(S) == CHOOSE x \in S : TRUE

\* What lines 81-83 of an iteration leave behind: the history, the exception
\* raised if any, the vertex pushed and the transformation chosen.
Selection(vs, e, pushed, t) ==
    [verts |-> vs, exc |-> e, pushed |-> pushed, trans |-> t]

\* Lines 81-83 of an iteration on the history vs, where cv is the outcome of
\* self.choose_vertex() and u2 the draw of choose_transform:
\*     self.verts = self.verts[1:] + [self.choose_vertex()]
\*     last_vert = self.vertices[self.verts[-1]]
\*     trans = self.choose_transform(last_vert)
select(vs, cv, u2) ==
    IF cv.exc # "none" THEN Selection(vs, cv.exc, <<>>, None)
    ELSE IF cv.val \notin DOMAIN vertices
    THEN Selection(Tail(vs) \o << cv.val >>, "IndexError", << cv.val >>, None)
    ELSE Only({ Selection(Tail(vs) \o << cv.val >>, ct.exc, << cv.val >>, ct.val) :
                ct \in { choose_transform(Tuple(vertices[cv.val]), u2) } })

\* What a whole iteration leaves behind.
Iteration(vs, pts, e, pushed, done) ==
    [verts |-> vs, points |-> pts, exc |-> e, pushed |-> pushed, done |-> done]

\* Line 84 of an iteration, after the selection sel, on the points pts:
\*     self.points.append(trans.transform(self.points[-1], last_vert))
\* None has no attribute `transform`.
loop_body(sel, pts) ==
    IF sel.exc # "none" THEN Iteration(sel.verts, pts, sel.exc, sel.pushed, <<>>)
    ELSE IF sel.trans = None
    THEN Iteration(sel.verts, pts, "AttributeError", sel.pushed, <<>>)
    ELSE Only({ Iteration(sel.verts, Append(pts, new), "none", sel.pushed,
                          << [from |-> pts[Len(pts)], vert |-> sel.pushed[1],
                              trans |-> sel.trans, to |-> new] >>) :
                new \in { transform(transformations[sel.trans], pts[Len(pts)],
                                    vertices[sel.pushed[1]]) } })

\* One channel of the colour of the point normalised to (x, y); x1 and y1 are
\* 1 - x and 1 - y.  Lines 89-90:
\*     ((coloring[0][i] * (1 - y) + coloring[1][i] * y) * x +
\*      (coloring[2][i] * (1 - y) + coloring[3][i] * y) * (1 - x)) / 256
channel(i, x, y, x1, y1) ==
    Norm(
    NMul(NAdd(NMul(NAdd(NMul(Int2Num(coloring[1][i]), y1),
                        NMul(Int2Num(coloring[2][i]), y)), x),
              NMul(NAdd(NMul(Int2Num(coloring[3][i]), y1),
                        NMul(Int2Num(coloring[4][i]), y)), x1)),
         Frac(1, 256)))

\* The point normalised: point = ((point[0]+1)/2, (point[1]+1)/2)
normalised(point) ==
    << NMul(NAdd(point[1], Int2Num(1)), Frac(1, 2)),
       NMul(NAdd(point[2], Int2Num(1)), Frac(1, 2)) >>

\* The colour of one point: lines 87-93.
color_of(point) ==
    Only({ << channel(1, p[1], p[2], q[1], q[2]),
              channel(2, p[1], p[2], q[1], q[2]),
              channel(3, p[1], p[2], q[1], q[2]) >> :
           p \in { normalised(point) },
           q \in { << NSub(Int2Num(1), normalised(point)[1]),
                      NSub(Int2Num(1), normalised(point)[2]) >> } })

\* coloring[3] or coloring[k][2] does not exist.
coloring_fails ==
    \/ Len(coloring) < 4
    \/ \E k \in 1 .. 4 : Len(coloring[k]) < 3

\* The colour loop leaving out the first point.
color_loop_skip_first(pts, cols) ==
    cols \o [i \in 1 .. (Len(pts) - 1) |-> color_of(pts[i + 1])]

\* for point in self.points: ... self.colors.append(color)
color_loop(pts, cols) == cols \o [i \in 1 .. Len(pts) |-> color_of(pts[i])]

\* self.points kept whole.
keep_all(pts) == pts

\* self.points[:1] in place of self.points[-1:]
keep_first(pts) == SubSeq(pts, 1, 1)

\* self.points = self.points[-1:]
keep_last(pts) == SliceFrom(pts, -1)

\* self.verts = [0, 0, 0]
fresh_verts == <<0, 0, 0>>

Last(seq) == seq[Len(seq)]

\* The set of the entries of a sequence.
Range(seq) == { seq[i] : i \in 1 .. Len(seq) }

RECURSIVE Sum(_)
Sum(seq) == IF seq = <<>> THEN 0 ELSE Head(seq) + Sum(Tail(seq))

\* generate_points(n) is entered: lines 75-78.
generate_points(n) ==
    /\ pc = "idle"
    /\ Len(calls) < MaxCalls
    /\ Sum(calls) + n <= MaxSteps
    /\ points' = keep_last(points)
    /\ colors' = <<>>
    /\ verts' = fresh_verts
    /\ n_left' = n
    /\ pc' = "loop"
    /\ calls' = Append(calls, n)
    /\ UNCHANGED <<config, err, chosen, steps, single, pure>>

\* One iteration of the loop of generate_points: lines 80-84.  The second
\* session runs the same iteration of its single call on the same draws.
Step ==
    /\ pc = "loop"
    /\ n_left > 0
    /\ \E cv \in { << choose_vertex(verts, u1), choose_vertex(one_verts, u1) >> :
                      u1 \in Draws } :
        \E sel \in { << select(verts, cv[1], u2), select(one_verts, cv[2], u2) >> :
                       u2 \in Draws } :
        \E it \in { loop_body(sel[1], points) }, one \in { loop_body(sel[2], one_points) } :
            /\ verts' = it.verts
            /\ points' = it.points
            /\ chosen' = chosen \o it.pushed
            /\ steps' = steps \o it.done
            /\ err' = it.exc
            /\ pc' = IF it.exc = "none" THEN "loop" ELSE "crashed"
            /\ n_left' = n_left - 1
            /\ IF one_err = "none"
               THEN /\ one_verts' = one.verts
                    /\ one_points' = one.points
                    /\ one_chosen' = one_chosen \o one.pushed
                    /\ one_err' = one.exc
               ELSE UNCHANGED single
    /\ UNCHANGED <<config, colors, calls, prompt, pure>>

\* The loop is over: the colours are computed and the call returns (lines 86-100).
\* self.points is never empty, so a coloring without a fourth entry, or an entry
\* without a third channel, raises IndexError at the first point.
Return ==
    /\ pc = "loop"
    /\ n_left = 0
    /\ IF coloring_fails
       THEN /\ pc' = "crashed"
            /\ err' = "IndexError"
            /\ UNCHANGED colors
       ELSE /\ colors' = color_loop(points, colors)
            /\ pc' = "idle"
            /\ UNCHANGED err
    /\ UNCHANGED <<config, points, verts, n_left, history, single, prompt, pure>>

\* A call of generate_points from outside the prompt loop, as on line 156.
Call(n) ==
    /\ generate_points(n)
    /\ UNCHANGED prompt

Next ==
    \/ \E n \in 0 .. MaxSteps : Call(n)
    \/ Step
    \/ Return

Spec == Init /\ [][Next]_vars

\* ------------------------------------------------------------ the prompt loop
\* An answer typed at the prompt is a sequence of characters.
Digits == << "0", "1", "2", "3", "4", "5", "6", "7", "8", "9" >>

\* Characters str.isnumeric accepts and int rejects, such as the fraction 1/2
\* written as one character.
OtherNumerics == { "VULGAR FRACTION ONE HALF" }

\* The answers the model types.
Answers ==
    { << "n" >>, << "0" >>, << "1" >>, << "2" >>, << "-", "1" >>,
      << "1", ".", "5" >>, << "a" >>, << >>, << "VULGAR FRACTION ONE HALF" >> }

\* str.isnumeric: the string is not empty and all its characters are numeric.
isnumeric(str) ==
    /\ str # << >>
    /\ \A i \in 1 .. Len(str) : str[i] \in Range(Digits) \cup OtherNumerics

\* The value of a decimal digit.
digit(ch) == (CHOOSE i \in 1 .. Len(Digits) : Digits[i] = ch) - 1

\* int(str) of a string isnumeric accepts: its value in base ten, ValueError
\* when a character is not a decimal digit.
RECURSIVE int(_)
int(str) ==
    IF \E i \in 1 .. Len(str) : str[i] \notin Range(Digits)
    THEN Raised("ValueError")
    ELSE IF Len(str) = 1
    THEN Returned(digit(str[1]))
    ELSE Returned(10 * int(SubSeq(str, 1, Len(str) - 1)).val + digit(Last(str)))

\* One round of the loop of lines 158-164: x = input(...); "n" leaves the
\* loop; an answer that is not numeric goes back to the prompt; any other
\* answer is handed to int and generate_points.
Input(answer) ==
    /\ pc = "idle"
    /\ calls # << >>
    /\ x_input' = answer
    /\ IF answer = << "n" >>
       THEN /\ pc' = "done"
            /\ UNCHANGED <<config, points, colors, verts, n_left, err, history, single, pure>>
       ELSE IF ~isnumeric(answer)
       THEN UNCHANGED <<config, session, history, single, pure>>
       ELSE IF int(answer).exc # "none"
       THEN /\ pc' = "crashed"
            /\ err' = int(answer).exc
            /\ UNCHANGED <<config, points, colors, verts, n_left, history, single, pure>>
       ELSE generate_points(int(answer).val)

\* Line 156: the first call, whose size is any the bounds allow.
First(n) ==
    /\ calls = << >>
    /\ Call(n)

\* The module's session: ChaosGameHistExc2 with two transformations of
\* probability 1/2 (lines 145-154), on three targets, offset 1 excluded.
ScriptInit ==
    /\ Init
    /\ cls = HistExc2
    /\ num_targets = 3
    /\ excluded_arg = <<1>>

ScriptNext ==
    \/ \E n \in 0 .. MaxSteps : First(n)
    \/ Step
    \/ Return
    \/ \E answer \in Answers : Input(answer)

Script == ScriptInit /\ [][ScriptNext]_vars

\* ------------------------------------------------- functions on their own
\* lcyc, the colour of a point and choose_transform applied once to arguments
\* drawn from bounded sets: fn_in names the function and holds the arguments
\* that are not fields of the session, fn_out holds the result once computed.
MaxBits == 4
GridRes == 2

\* N, n and k of lcyc: a field of 1 to MaxBits bits, a mask in it, a rotation
\* below its width.
lcyc_args ==
    { <<N, n, k>> : N \in 1 .. MaxBits, n \in 0 .. (Pow2(MaxBits) - 1), k \in 0 .. (MaxBits - 1) }

\* The points of [-1,1] x [-1,1] on a grid of step 1/GridRes.
Grid ==
    { << Frac(i, GridRes), Frac(j, GridRes) >> : i, j \in (-GridRes) .. GridRes }

\* Four shades of grey.
GreyColoring == << <<0, 0, 0>>, <<64, 64, 64>>, <<128, 128, 128>>, <<255, 255, 255>> >>

Colorings == { DefaultColoring, GreyColoring }

\* Lists of transformations that differ in their weights.
Weighted(ws) == [i \in 1 .. Len(ws) |-> Transformation(Frac(1, 2), 0, ws[i])]

WeightLists ==
    { << Frac(1, 1) >>,
      << Frac(1, 2), Frac(1, 2) >>,
      << Frac(1, 3), Frac(1, 6), Frac(1, 2) >>,
      << Frac(1, 6), Frac(5, 6) >>,
      << Frac(1, 2), Frac(0, 1), Frac(1, 2) >>,
      << Frac(1, 2), Frac(1, 3) >> }

FunctionsInit ==
    /\ fn_out = << >>
    /\ \/ \E a \in lcyc_args :
            /\ a[2] < Pow2(a[1])
            /\ a[3] < a[1]
            /\ Constructed(Config(Base, 3, DefaultTransformations, << >>, 0))
            /\ fn_in = [fn |-> "lcyc", args |-> a]
       \/ \E col \in Colorings, point \in Grid :
            /\ Constructed([Config(Base, 3, DefaultTransformations, << >>, 0)
                               EXCEPT !.coloring = col])
            /\ fn_in = [fn |-> "color_of", args |-> << point >>]
       \/ \E ws \in WeightLists, u \in Draws :
            /\ Constructed(Config(Base, 3, Weighted(ws), << >>, 0))
            /\ fn_in = [fn |-> "choose_transform", args |-> << u >>]

apply_lcyc ==
    /\ fn_in.fn = "lcyc"
    /\ fn_out = << >>
    /\ fn_out' = << lcyc(fn_in.args[1], fn_in.args[2], fn_in.args[3]) >>
    /\ UNCHANGED <<config, session, history, single, prompt, fn_in>>

apply_color_of ==
    /\ fn_in.fn = "color_of"
    /\ fn_out = << >>
    /\ fn_out' = << color_of(fn_in.args[1]) >>
    /\ UNCHANGED <<config, session, history, single, prompt, fn_in>>

apply_choose_transform ==
    /\ fn_in.fn = "choose_transform"
    /\ fn_out = << >>
    /\ fn_out' = << ChaosGame_choose_transform(fn_in.args[1]) >>
    /\ UNCHANGED <<config, session, history, single, prompt, fn_in>>

FunctionsNext ==
    \/ apply_lcyc
    \/ apply_color_of
    \/ apply_choose_transform

Functions == FunctionsInit /\ [][FunctionsNext]_vars

\* ------------------------------------------------------------ properties
\* Every point generated so far, in generation order.
Generated == [i \in 1 .. Len(steps) |-> steps[i].to]

\* The origin followed by every point generated so far.
AllPoints == << Origin >> \o Generated

\* The last k entries of a sequence.
LastK(seq, k) == SubSeq(seq, Len(seq) - k + 1, Len(seq))

\* The vertices the offsets of the mask allow after the vertex v:
\* {w in [0,N) : (w - v) mod N is not an offset of the mask}.
AllowedAfter(v) ==
    { w \in 0 .. (num_targets - 1) :
        BitAnd(excluded, Pow2((w - v) % num_targets)) = 0 }

\* C1: generate_points(a) followed by generate_points(b) chooses the same
\* vertices and produces the same points as one generate_points(a+b) fed the
\* same draws: whenever the session is between two calls, its chosen vertices
\* and its points so far are those of the session that made a single call.
C1_BatchingIsInvisible ==
    pc = "idle" => /\ chosen = one_chosen
                   /\ AllPoints = one_points

\* C2: in ChaosGameHistExc, with a mask of offsets within [0, N), a step that
\* follows a step of the session that chose v has exactly the vertices
\* {w : (w - v) mod N not in E} available.
C2_AvailableAfterChosen ==
    (/\ cls = HistExc
     /\ excluded < Pow2(num_targets)
     /\ pc = "loop"
     /\ n_left > 0
     /\ chosen # <<>>)
    => Range(verts_avail(HistExc_exc(verts))) = AllowedAfter(Last(chosen))

\* The vertices ChaosGameHistExc2.choose_vertex can return on the history vs.
HistExc2_available(vs) ==
    IF HistExc2_triggered(vs)
    THEN Range(verts_avail(lcyc(num_targets, excluded, Last(vs))))
    ELSE 0 .. (num_targets - 1)

\* C3: in ChaosGameHistExc2 a step is constrained by the rotated mask if and
\* only if the two immediately preceding steps of the session chose the same
\* vertex; on every other step, also with fewer than two preceding choices,
\* every vertex is available.
C3_ConstrainedIffRepeated ==
    (/\ cls = HistExc2
     /\ excluded < Pow2(num_targets)
     /\ pc = "loop"
     /\ n_left > 0)
    => HistExc2_available(verts) =
         IF Len(chosen) >= 2 /\ chosen[Len(chosen)] = chosen[Len(chosen) - 1]
         THEN AllowedAfter(Last(chosen))
         ELSE 0 .. (num_targets - 1)

\* anchor + scale * R(rotation) * (p - anchor)
Contract(t, anchor, p) ==
    LET dx == NSub(p[1], anchor[1])
        dy == NSub(p[2], anchor[2])
        c == cos(t.rotation)
        sn == sin(t.rotation)
    IN  << Norm(NAdd(anchor[1], NMul(t.scale, NSub(NMul(c, dx), NMul(sn, dy))))),
           Norm(NAdd(anchor[2], NMul(t.scale, NAdd(NMul(sn, dx), NMul(c, dy))))) >>

\* C4 as stated: every step's new point is
\* vertices[v] + scale * R(rotation) * (last_point - vertices[v]).
C4_ContractsTowardVertex ==
    \A i \in 1 .. Len(steps) :
        steps[i].to = Contract(transformations[steps[i].trans],
                               vertices[steps[i].vert], steps[i].from)

\* C4 amended: every step's new point is
\* last_point + scale * R(rotation) * (vertices[v] - last_point), the transform
\* anchored at the last point and applied to the vertex; with scale 1/2 and no
\* rotation, the vertex (1,0) and the last point (0,0) give (1/2, 0).
C4_MovesFromLastPoint ==
    \A i \in 1 .. Len(steps) :
        /\ steps[i].to = Contract(transformations[steps[i].trans],
                                  steps[i].from, vertices[steps[i].vert])
        /\ (/\ transformations[steps[i].trans].scale = Frac(1, 2)
            /\ transformations[steps[i].trans].rotation = 0
            /\ vertices[steps[i].vert] = << Int2Num(1), Int2Num(0) >>
            /\ steps[i].from = Origin)
           => steps[i].to = << Frac(1, 2), Int2Num(0) >>

\* A step away from the origin, by a transformation that rotates, is done.
C4_Witness ==
    \E i \in 1 .. Len(steps) :
        /\ transformations[steps[i].trans].rotation # 0
        /\ steps[i].from # Origin
        /\ steps[i].to # steps[i].from

\* C5: in ChaosGameTargetTransform with one transformation per vertex every
\* step applies transformations[v], v the vertex index chosen on that step,
\* and completes without error.
C5_TransformOfChosenVertex ==
    (cls = TargetTransform /\ Len(transformations) = num_targets)
    => /\ err = "none"
       /\ \A i \in 1 .. Len(steps) : steps[i].trans = steps[i].vert + 1

\* C6: the weighted choose_transform returns a member of the transformation
\* list on every draw, the last one when the draw is not below the total
\* weight, never None, so that the step that follows does not fail.
C6_NeverNoTransform ==
    (cls # TargetTransform /\ transformations # <<>>)
    => /\ err # "AttributeError"
       /\ \A i \in 1 .. Len(steps) : steps[i].trans \in 1 .. Len(transformations)

\* C7: an exclusion mask that forbids every vertex is a configuration error
\* found at construction: a session of ChaosGameHistExc or ChaosGameHistExc2
\* never fails inside generate_points for want of an available vertex.
C7_NoFailureInsideGenerate ==
    (cls \in {HistExc, HistExc2}) => err # "ValueError"

\* C8 as stated: between calls the session's point sequence holds every point
\* generated so far, in generation order, with one colour each.
C8_KeepsEveryPoint ==
    (pc = "idle" /\ calls # <<>>)
    => /\ Len(points) >= Len(Generated)
       /\ LastK(points, Len(Generated)) = Generated
       /\ Len(colors) >= Len(Generated)

\* C8 amended: inside and after a generate_points(n) call the session's point
\* sequence is the point the call started from followed by the points this
\* call has generated so far, in generation order; the points of earlier calls
\* are dropped.  When the call has returned there is one colour per point.
C8_KeepsTheCallsPoints ==
    (pc \in {"idle", "loop"} /\ calls # <<>>)
    => /\ points = LastK(AllPoints, Last(calls) - n_left + 1)
       /\ pc = "idle" => Len(colors) = Len(points)

\* A second call has returned, and both calls generated points.
C8_Witness ==
    /\ pc = "idle"
    /\ Len(calls) = 2
    /\ calls[1] > 0
    /\ calls[2] > 0

\* C9: every step starts from the point the step before it produced, across
\* calls as within one, and the first step of a fresh session from the origin.
C9_StartsFromLastPoint ==
    /\ \A i \in 1 .. Len(steps) :
        steps[i].from = IF i = 1 THEN Origin ELSE steps[i - 1].to
    /\ pc \in {"idle", "loop"} => Last(points) = Last(AllPoints)

\* The first step of a second call is done, and the first call moved the point.
C9_Witness ==
    /\ Len(calls) = 2
    /\ calls[1] > 0
    /\ Len(steps) > calls[1]
    /\ steps[calls[1] + 1].from # Origin

\* C10: every vertex index a step chose, and every entry of the selection
\* history, is in [0, num_targets).
C10_ChosenInRange ==
    /\ \A i \in 1 .. Len(chosen) : 0 <= chosen[i] /\ chosen[i] < num_targets
    /\ \A i \in 1 .. Len(verts) : 0 <= verts[i] /\ verts[i] < num_targets

\* Three steps are done and the last chose the highest vertex.
C10_Witness ==
    /\ Len(chosen) >= 3
    /\ Last(chosen) = num_targets - 1

\* The sum of the weights of a list of transformations.
RECURSIVE WeightSum(_)
WeightSum(ts) ==
    IF ts = << >> THEN Int2Num(0)
    ELSE Norm(NAdd(Head(ts).prob, WeightSum(Tail(ts))))

\* The configuration is one the specification calls invalid: fewer than three
\* targets, a coloring without exactly four entries, a list of transformations
\* whose length is not num_targets where the vertex indexes it, or weights
\* that do not sum to 1 where a draw selects the transformation.
InvalidConfiguration ==
    \/ num_targets < 3
    \/ Len(coloring) # 4
    \/ cls = TargetTransform /\ Len(transformations) # num_targets
    \/ cls # TargetTransform /\ WeightSum(transformations) # Int2Num(1)

\* C11: a session with an invalid configuration is never constructed, so no
\* call of generate_points is made and no step runs on an invalid configuration.
C11_InvalidNeverRuns ==
    InvalidConfiguration => (calls = << >> /\ steps = << >>)

\* The answer is a positive integer written in decimal digits.
PositiveInteger(answer) ==
    /\ answer # << >>
    /\ \A i \in 1 .. Len(answer) : answer[i] \in Range(Digits)
    /\ \E i \in 1 .. Len(answer) : answer[i] # "0"

\* C12: at the prompt, an answer other than 'n' that is not a positive integer
\* leaves points, colours and selection history unchanged and the program at
\* the prompt; generate_points is entered only on a positive integer, and the
\* loop ends only on 'n'.
C12_InvalidRequestIgnored ==
    [][ (pc = "idle" /\ calls # << >>) =>
          /\ (x_input' # << "n" >> /\ ~PositiveInteger(x_input')) =>
                (pc' = "idle" /\ UNCHANGED <<points, colors, verts>>)
          /\ pc' = "loop" => PositiveInteger(x_input')
          /\ pc' = "done" => x_input' = << "n" >> ]_vars

\* Bit d of the mask is set.
BitSet(mask, d) == (mask \div Pow2(d)) % 2 = 1

\* C13: the mask built from a list of offsets in [0, num_targets), repeated
\* entries included, has bit d set exactly when d occurs in the list; the
\* empty list gives the mask 0.
C13_MaskBitIffListed ==
    ( /\ cls \in {HistExc, HistExc2}
      /\ \A i \in 1 .. Len(excluded_arg) : excluded_arg[i] \in 0 .. (num_targets - 1) )
    => \A d \in 0 .. (num_targets + Len(excluded_arg)) :
          BitSet(excluded, d) <=> d \in Range(excluded_arg)

\* The point (sx, sy).
Corner(sx, sy) == << Int2Num(sx), Int2Num(sy) >>

\* The k-th configured colour, each channel divided by 256.
ConfiguredColor(k) ==
    << Frac(coloring[k][1], 256), Frac(coloring[k][2], 256), Frac(coloring[k][3], 256) >>

\* C15: with coloring = [top-left, top-right, bottom-left, bottom-right], top
\* being y = +1 and left being x = -1, the colour of a corner of the square is
\* the configured colour of that corner divided by 256: (-1,+1) takes
\* coloring[0], (+1,+1) coloring[1], (-1,-1) coloring[2], (+1,-1) coloring[3].
C15_CornersTakeTheirColor ==
    (fn_in.fn = "color_of" /\ fn_out # << >>) =>
        /\ fn_in.args[1] = Corner(-1, 1) => fn_out[1] = ConfiguredColor(1)
        /\ fn_in.args[1] = Corner(1, 1) => fn_out[1] = ConfiguredColor(2)
        /\ fn_in.args[1] = Corner(-1, -1) => fn_out[1] = ConfiguredColor(3)
        /\ fn_in.args[1] = Corner(1, -1) => fn_out[1] = ConfiguredColor(4)

\* C16: for N >= 1, a mask in [0, 2^N) and k in [0, N), lcyc(N, mask, k) is in
\* [0, 2^N) and its bit (j + k) mod N is set exactly when bit j of the mask is.
C16_lcycRotatesLeft ==
    (fn_in.fn = "lcyc" /\ fn_out # << >>) =>
        /\ fn_out[1] \in 0 .. (Pow2(fn_in.args[1]) - 1)
        /\ \A j \in 0 .. (fn_in.args[1] - 1) :
              BitSet(fn_out[1], (j + fn_in.args[3]) % fn_in.args[1])
                  <=> BitSet(fn_in.args[2], j)

\* A rotation by two places that carries the top bit of the mask round.
C16_Witness ==
    /\ fn_in.fn = "lcyc"
    /\ fn_out # << >>
    /\ fn_in.args[1] >= 3
    /\ fn_in.args[3] = 2
    /\ BitSet(fn_in.args[2], fn_in.args[1] - 1)
    /\ BitSet(fn_out[1], 1)
    /\ fn_out[1] # fn_in.args[2]

\* w_0 + ... + w_(i-1), the weights of the first i transformations.
Cumulative(i) == WeightSum(SubSeq(transformations, 1, i))

\* C18: when the weights sum to 1, choose_transform returns for the draw p the
\* transformation of the smallest index whose cumulative weight exceeds p.
C18_SmallestIndexBelowCumulative ==
    ( /\ fn_in.fn = "choose_transform"
      /\ fn_out # << >>
      /\ WeightSum(transformations) = Int2Num(1) )
    => /\ fn_out[1].exc = "none"
       /\ fn_out[1].val \in 1 .. Len(transformations)
       /\ NLess(random(fn_in.args[1]), Cumulative(fn_out[1].val))
       /\ \A j \in 1 .. (fn_out[1].val - 1) :
             ~NLess(random(fn_in.args[1]), Cumulative(j))

\* The third of three transformations is returned, the second having weight 0.
C18_Witness ==
    /\ fn_in.fn = "choose_transform"
    /\ fn_out # << >>
    /\ WeightSum(transformations) = Int2Num(1)
    /\ Len(transformations) = 3
    /\ transformations[2].prob = Int2Num(0)
    /\ fn_out[1] = Returned(3)

\* The history lengths compared.
MaxHistLen == 2

BlendAt(px, py, i) ==
    Norm(NMul(NAdd(NMul(NAdd(NMul(Int2Num(coloring[1][i]), NSub(Int2Num(1), py)),
                             NMul(Int2Num(coloring[2][i]), py)),
                        px),
                   NMul(NAdd(NMul(Int2Num(coloring[3][i]), NSub(Int2Num(1), py)),
                             NMul(Int2Num(coloring[4][i]), py)),
                        NSub(Int2Num(1), px))),
              Frac(1, 256)))

\* C19: after every call generate_points(n) that returns normally, points and
\* colors both have n + 1 entries and colors[i] is the colour of points[i].
C19_ColorsParallelPoints ==
    (pc = "idle" /\ calls # << >>) =>
        /\ Len(points) = Last(calls) + 1
        /\ Len(colors) = Last(calls) + 1
        /\ \A i \in 1 .. Len(colors) :
              \A px \in { NMul(NAdd(points[i][1], Int2Num(1)), Frac(1, 2)) },
                 py \in { NMul(NAdd(points[i][2], Int2Num(1)), Frac(1, 2)) } :
                  colors[i] = << BlendAt(px, py, 1), BlendAt(px, py, 2), BlendAt(px, py, 3) >>

\* A second call, of two steps or more, has returned.
C19_Witness ==
    /\ pc = "idle"
    /\ Len(calls) = 2
    /\ Last(calls) >= 2
    /\ Len(colors) = Last(calls) + 1

====
